---------------------------- MODULE Spec2Model ----------------------------
(* Feed assembly of VidShare: controllers/helpers.js getFeed and the        *)
(* condition manipulation it applies to the first video of a user's feed.   *)
(* The shared script, the actors and the user's action log are the inputs;  *)
(* one getFeed request is run as the successive steps of its code.          *)
EXTENDS Integers, Sequences, FiniteSets, TLC

VARIABLES
    base,         \* the parameters the script collection was seeded from
    script,       \* Script collection: the videos stored for the user's interest
    actors,       \* Actor collection, in storage order
    user,         \* the User document: condition, createdAt, feedAction
    now,          \* Date.now()
    pc,           \* position of the getFeed request in progress
    script_feed,  \* getFeed's script_feed: the loaded documents still to replay
    finalfeed,    \* getFeed's finalfeed
    feed,         \* the serializedFeed last returned
    outcome,      \* how the last getFeed request ended
    calls,        \* number of getFeed requests started
    limits        \* how many log actions and requests this run explores

vars == <<base, script, actors, user, now, pc, script_feed, finalfeed, feed,
          outcome, calls, limits>>

-----------------------------------------------------------------------------
(* Bounds of the model *)

MaxLog == 1
MaxTicks == 1
MaxCalls == 2

-----------------------------------------------------------------------------
(* Sequence helpers *)

Range(s) == {s[i] : i \in 1..Len(s)}

\* Array.prototype.findIndex / _.findIndex, 1-based, 0 for "not found" (-1)
FindIndex(s, P(_)) ==
    IF \E i \in 1..Len(s) : P(s[i])
    THEN CHOOSE i \in 1..Len(s) : P(s[i]) /\ \A j \in 1..(i - 1) : ~P(s[j])
    ELSE 0

\* comments.sort((a, b) => b.time - a.time): a stable sort, latest first
RECURSIVE InsertTimeDesc(_, _)
InsertTimeDesc(x, s) ==
    IF s = <<>> THEN <<x>>
    ELSE IF x.time > s[1].time THEN <<x>> \o s
    ELSE <<s[1]>> \o InsertTimeDesc(x, Tail(s))

RECURSIVE SortTimeDesc(_)
SortTimeDesc(s) ==
    IF s = <<>> THEN <<>>
    ELSE InsertTimeDesc(s[Len(s)], SortTimeDesc(SubSeq(s, 1, Len(s) - 1)))

\* subcomments.sort((a, b) => a.time - b.time): a stable sort, earliest first
RECURSIVE InsertTimeAsc(_, _)
InsertTimeAsc(x, s) ==
    IF s = <<>> THEN <<x>>
    ELSE IF x.time < s[1].time THEN <<x>> \o s
    ELSE <<s[1]>> \o InsertTimeAsc(x, Tail(s))

RECURSIVE SortTimeAsc(_)
SortTimeAsc(s) ==
    IF s = <<>> THEN <<>>
    ELSE InsertTimeAsc(s[Len(s)], SortTimeAsc(SubSeq(s, 1, Len(s) - 1)))

\* a variant that leaves the order as it is
SortPostID_Unsorted(s) == s

\* finalfeed.sort((a, b) => a.postID - b.postID)
RECURSIVE InsertPostID(_, _)
InsertPostID(x, s) ==
    IF s = <<>> THEN <<x>>
    ELSE IF x.postID < s[1].postID THEN <<x>> \o s
    ELSE <<s[1]>> \o InsertPostID(x, Tail(s))

RECURSIVE SortPostID(_)
SortPostID(s) ==
    IF s = <<>> THEN <<>>
    ELSE InsertPostID(s[Len(s)], SortPostID(SubSeq(s, 1, Len(s) - 1)))

-----------------------------------------------------------------------------
(* Message bodies.  A body is held as a key; Text gives its words, and     *)
(* String.prototype.includes is a search for a run of words.               *)

Text(b) ==
    CASE b = "HARASSMENT_COMMENT" ->
           <<"LOL,", "did", "you", "even", "preview", "this", "before",
             "sharing?", "No", "one", "is", "interested", "in", "this",
             "crap.", "Save", "your", "time", "and", "ours.">>
      [] b = "LOL_SHORT" ->
           <<"LOL,", "did", "you", "even", "preview", "...">>
      [] b = "REMOVAL_AI_NO_REF" ->
           <<"This", "comment", "is", "removed.", "Our", "bot", "(robot)",
             "removed", "the", "comment", "for", "containing", "harassing",
             "language.">>
      [] b = "REMOVAL_AI_REF" ->
           <<"This", "comment", "is", "removed.", "Our", "bot", "(robot)",
             "removed", "this", "comment", "for", "containing", "harassing",
             "language", "inconsistent", "with", "typical", "community",
             "behavior.">>
      [] b = "REMOVAL_COM_NO_REF" ->
           <<"This", "comment", "is", "removed.", "Our", "community",
             "member", "(person)", "removed", "the", "comment", "for",
             "containing", "harassing", "language.">>
      [] b = "REMOVAL_COM_REF" ->
           <<"This", "comment", "is", "removed.", "Our", "community",
             "member", "(person)", "removed", "this", "comment", "for",
             "containing", "harassing", "language", "inconsistent", "with",
             "typical", "community", "behavior.">>
      [] b = "OBJECTION_AI_NO_REF" ->
           <<"This", "comment", "is", "offensive", "toward", "others.",
             "Please", "remember", "to", "stay", "respectful", "to", "each",
             "other", "here.">>
      [] b = "OBJECTION_AI_REF" ->
           <<"This", "comment", "is", "offensive", "toward", "others.",
             "This", "is", "not", "how", "people", "typically", "respond",
             "in", "this", "community.">>
      [] b = "OBJECTION_COM_NO_REF" ->
           <<"Please", "remember", "to", "stay", "respectful", "to", "each",
             "other", "here.">>
      [] b = "OBJECTION_COM_REF" ->
           <<"This", "comment", "is", "offensive", "toward", "others.",
             "This", "is", "not", "how", "people", "typically", "respond",
             "in", "this", "community.">>
      [] OTHER -> <<b>>

Includes(b, pat) ==
    \E i \in 1..(Len(Text(b)) - Len(pat) + 1) :
        SubSeq(Text(b), i, i + Len(pat) - 1) = pat

LolPrefix == <<"LOL,", "did", "you", "even", "preview">>

\* comment.body && comment.body.includes("LOL, did you even preview")
IncludesLol(c) == c.body # "" /\ Includes(c.body, LolPrefix)

-----------------------------------------------------------------------------
(* Conditions *)

RemConditions == {"Rem:AI:NoRef", "Rem:AI:Ref", "Rem:Com:NoRef", "Rem:Com:Ref"}
ObjConditions == {"Obj:AI:NoRef", "Obj:AI:Ref", "Obj:Com:NoRef", "Obj:Com:Ref"}
conditionMessages == {"Control"} \cup RemConditions \cup ObjConditions

-----------------------------------------------------------------------------
(* Values *)

\* reply_to / parent_comment / comment of a log entry that carries none (null)
Null == 0

\* a field that was never assigned (undefined), for the fields the code
\* assigns the booleans true and false to
Undefined == "undefined"
Bool(b) == IF b THEN "true" ELSE "false"

HARASSMENT_TIME_OFFSET == -6 * 60 * 60 * 1000

\* the commentID of every injected objection
ObjectionCommentID == 96

\* the commentID of the harassment comment the manipulator creates
SyntheticCommentID == 999

\* 3 * 60 * 60 * 1000 in the objection's time
ObjectionAge == 3 * 60 * 60 * 1000

\* one step of the clock, in ms
TickMs == 60 * 1000

-----------------------------------------------------------------------------
(* Actors *)

Actor(_id, username, class) == [_id |-> _id, username |-> username, class |-> class]

Troll == Actor(1, "troll42", "normal")
Alice == Actor(2, "alice", "normal")
Bot   == Actor(3, "VidShare Bot", "objection")
Kim   == Actor(4, "kim", "objection")
Lee   == Actor(5, "lee", "objection")

ActorSets == {<<Troll, Alice, Bot, Kim, Lee>>,
              <<Troll, Alice, Kim, Lee>>,
              <<Troll, Alice, Bot>>}

\* Actor.findOne().where('username').equals("VidShare Bot"): a sequence of
\* no or one actor
aiBotActor(as) == SelectSeq(as, LAMBDA a : a.username = "VidShare Bot")

\* a variant that takes every actor of class objection
humanObjectionActors_WithBot(as) ==
    SelectSeq(as, LAMBDA a : a.class = "objection")

\* Actor.find().where('class').equals("objection").where('username').ne("VidShare Bot")
humanObjectionActors(as) ==
    SelectSeq(as, LAMBDA a : a.class = "objection" /\ a.username # "VidShare Bot")

-----------------------------------------------------------------------------
(* The seeded script: three videos of the user's interest.  The first      *)
(* holds the harassment comment (commentID 13) and one other comment.      *)

\* the id (the string of _id) of a stored comment and of a stored post
CommentDocId(commentID) == 100 + commentID
PostDocId(postID) == 500 + postID

Subcomment(commentID, body, actor, time, likes) ==
    [id |-> CommentDocId(commentID), commentID |-> commentID, body |-> body,
     class |-> "", actor |-> actor, time |-> time,
     likes |-> likes, unlikes |-> 0,
     liked |-> FALSE, unliked |-> FALSE, flagged |-> FALSE,
     new_comment |-> FALSE, reply_to |-> Null, parent_comment |-> Null]

Comment(commentID, body, class, actor, time, likes, unlikes, subcomments) ==
    [id |-> CommentDocId(commentID), commentID |-> commentID, body |-> body,
     class |-> class, actor |-> actor, time |-> time,
     likes |-> likes, unlikes |-> unlikes,
     liked |-> FALSE, unliked |-> FALSE, flagged |-> FALSE,
     removed |-> Undefined, allowInteractions |-> Undefined,
     new_comment |-> FALSE, subcomments |-> subcomments]

Video(postID, comments, likes, unlikes) ==
    [id |-> PostDocId(postID), postID |-> postID, class |-> "Science",
     actor |-> Alice, comments |-> comments,
     likes |-> likes, unlikes |-> unlikes,
     liked |-> FALSE, unliked |-> FALSE, flagged |-> FALSE,
     like |-> FALSE, unlike |-> FALSE, flag |-> FALSE]

HarassID == 13
OtherID == HarassID - 1

\* hTime: the harassment comment's time in the script; hSub: whether it has
\* a reply in the script; hKind: how it is tagged; hFirst: whether it is
\* stored before the other comment; n: the number of videos stored for the
\* user's interest
BaseParams ==
    [hTime : {-60000, -12 * 60 * 60 * 1000},
     hSub : BOOLEAN,
     hKind : {"canonical", "short", "untagged"},
     hFirst : BOOLEAN,
     n : {3}]

\* the scripts that hold fewer or more than three videos
VideoCounts == {0, 1, 2, 4}

\* the scripts whose first video holds no harassment comment: "absent" has
\* the other comment only, "empty" has no comment at all
NoHarassmentBases ==
    [hTime : {-60000}, hSub : {FALSE}, hKind : {"absent", "empty"},
     hFirst : {TRUE}, n : {3}]

OtherBases ==
    [hTime : {-60000}, hSub : {TRUE}, hKind : {"short"}, hFirst : {TRUE},
     n : VideoCounts]

HarassmentComment(b) ==
    Comment(HarassID,
            IF b.hKind = "short" THEN "LOL_SHORT" ELSE "HARASSMENT_COMMENT",
            IF b.hKind = "untagged" THEN "" ELSE "offense1",
            Troll, b.hTime, 4, 1,
            IF b.hSub THEN <<Subcomment(15, "so true", Alice, -30000, 2)>>
            ELSE <<>>)

OtherComment ==
    Comment(OtherID, "nice video", "", Alice, -120000, 2, 1,
            <<Subcomment(14, "thanks", Troll, -100000, 0)>>)

SeededVideos(b) ==
    << Video(0, CASE b.hKind = "empty" -> <<>>
                  [] b.hKind = "absent" -> <<OtherComment>>
                  [] OTHER -> IF b.hFirst
                              THEN <<HarassmentComment(b), OtherComment>>
                              ELSE <<OtherComment, HarassmentComment(b)>>,
                3, 1),
       Video(1, <<Comment(20, "first", "", Alice, -90000, 1, 0, <<>>),
                  Comment(21, "cool", "", Troll, -40000, 0, 0, <<>>)>>, 7, 0),
       Video(2, <<>>, 0, 2),
       Video(3, <<Comment(30, "wow", "", Alice, -50000, 0, 0, <<>>)>>, 1, 1) >>

Reverse(s) == [i \in 1..Len(s) |-> s[Len(s) + 1 - i]]

\* the collection as stored: three videos in the order of their postID, or
\* another number of videos, stored latest first
SeededScript(b) ==
    IF b.n = 3 THEN SubSeq(SeededVideos(b), 1, 3)
    ELSE Reverse(SubSeq(SeededVideos(b), 1, b.n))

-----------------------------------------------------------------------------
(* Helpers of controllers/helpers.js *)

\* a variant that leaves the comment's time as it is
setHarassmentCommentTime_Skipped(comment) == comment

setHarassmentCommentTime(comment) ==
    [comment EXCEPT !.time = HARASSMENT_TIME_OFFSET]

\* the actor as a plain object
serializeActorForSubcomment(actor) == actor

setDeletedActor(comment, originalActor) ==
    [comment EXCEPT !.actor = [_id |-> originalActor._id,
                               username |-> "[deleted]",
                               class |-> Undefined]]

\* user.condition && (user.condition.startsWith('Obj:AI:') ||
\*                    user.condition.startsWith('Obj:Com:'))
isObjectionCondition(condition) ==
    condition \in {"Obj:AI:NoRef", "Obj:AI:Ref", "Obj:Com:NoRef", "Obj:Com:Ref"}

\* new mongoose.Types.ObjectId(): a value no earlier request produced
NewObjectId(n) == 1000 + n

\* a variant that looks the harassment comment up by its class only
FindHarassmentIndex_ClassOnly(comments) ==
    IF Len(comments) > 0
    THEN FindIndex(comments, LAMBDA c : c.class = "offense1")
    ELSE 0

\* the harassment comment located among the first video's comments:
\* by class first, by body otherwise; 0 when there is none
FindHarassmentIndex(comments) ==
    IF Len(comments) > 0
    THEN IF FindIndex(comments, LAMBDA c : c.class = "offense1") # 0
         THEN FindIndex(comments, LAMBDA c : c.class = "offense1")
         ELSE FindIndex(comments, IncludesLol)
    ELSE 0

\* a variant that leaves the counters of the comment that was found
ResetFound_KeepsCounters(foundComment, condition) ==
    [setHarassmentCommentTime([foundComment EXCEPT !.class = "offense1"])
     EXCEPT !.allowInteractions = Bool(isObjectionCondition(condition))]

\* a variant that leaves the class of the comment that was found
ResetFound_KeepsClass(foundComment, condition) ==
    [setHarassmentCommentTime(
        [foundComment EXCEPT !.likes = 0, !.unlikes = 0])
     EXCEPT !.allowInteractions = Bool(isObjectionCondition(condition))]

\* lines 360-378: the comment that was found is reset
ResetFound(foundComment, condition) ==
    [setHarassmentCommentTime(
        [foundComment EXCEPT !.class = "offense1", !.likes = 0, !.unlikes = 0])
     EXCEPT !.allowInteractions = Bool(isObjectionCondition(condition))]

\* lines 395-405: the comment created when none was found
harassmentCommentObj(harassmentActor, condition) ==
    [id |-> Null, commentID |-> SyntheticCommentID,
     body |-> "HARASSMENT_COMMENT", class |-> "offense1",
     actor |-> harassmentActor, time |-> -6 * 60 * 60 * 1000,
     likes |-> 0, unlikes |-> 0,
     liked |-> FALSE, unliked |-> FALSE, flagged |-> FALSE,
     removed |-> Undefined,
     allowInteractions |-> Bool(isObjectionCondition(condition)),
     new_comment |-> FALSE, subcomments |-> <<>>]

\* a variant that leaves the body of the comment as the script has it
ControlCase_KeepsBody(controlComment) ==
    setHarassmentCommentTime(
        [controlComment EXCEPT !.class = "offense1",
                               !.removed = "false",
                               !.likes = 0,
                               !.unlikes = 0,
                               !.subcomments = <<>>,
                               !.allowInteractions = "true"])

\* case 'Control'
ControlCase(controlComment) ==
    setHarassmentCommentTime(
        [controlComment EXCEPT !.body = "HARASSMENT_COMMENT",
                               !.class = "offense1",
                               !.removed = "false",
                               !.likes = 0,
                               !.unlikes = 0,
                               !.subcomments = <<>>,
                               !.allowInteractions = "true"])

RemovalBody(condition) ==
    CASE condition = "Rem:AI:NoRef" -> "REMOVAL_AI_NO_REF"
      [] condition = "Rem:AI:Ref" -> "REMOVAL_AI_REF"
      [] condition = "Rem:Com:NoRef" -> "REMOVAL_COM_NO_REF"
      [] condition = "Rem:Com:Ref" -> "REMOVAL_COM_REF"

\* a variant with the class names 'ai_removal_ref' and 'community_removal_ref'
RemovalClass_Ref(condition) ==
    CASE condition = "Rem:AI:NoRef" -> "ai_removal_no_ref"
      [] condition = "Rem:AI:Ref" -> "ai_removal_ref"
      [] condition = "Rem:Com:NoRef" -> "community_removal_no_ref"
      [] condition = "Rem:Com:Ref" -> "community_removal_ref"

RemovalClass(condition) ==
    CASE condition = "Rem:AI:NoRef" -> "ai_removal_no_ref"
      [] condition = "Rem:AI:Ref" -> "ai_removal_community"
      [] condition = "Rem:Com:NoRef" -> "community_removal_no_ref"
      [] condition = "Rem:Com:Ref" -> "community_removal_community"

\* a variant that keeps the replies under the removed comment
RemovalCase_KeepsSubcomments(comment, condition) ==
    LET c1 == [comment EXCEPT !.body = RemovalBody(condition),
                              !.class = RemovalClass(condition),
                              !.removed = "true",
                              !.likes = 0,
                              !.unlikes = 0]
        c2 == setHarassmentCommentTime(c1)
    IN  setDeletedActor(c2, c2.actor)

\* the four cases 'Rem:*', which differ in the body and the class they set
RemovalCase(comment, condition) ==
    LET c1 == [comment EXCEPT !.body = RemovalBody(condition),
                              !.class = RemovalClass(condition),
                              !.removed = "true",
                              !.likes = 0,
                              !.unlikes = 0,
                              !.subcomments = <<>>]
        c2 == setHarassmentCommentTime(c1)
    IN  setDeletedActor(c2, c2.actor)

ObjectionBody(condition) ==
    CASE condition = "Obj:AI:NoRef" -> "OBJECTION_AI_NO_REF"
      [] condition = "Obj:AI:Ref" -> "OBJECTION_AI_REF"
      [] condition = "Obj:Com:NoRef" -> "OBJECTION_COM_NO_REF"
      [] condition = "Obj:Com:Ref" -> "OBJECTION_COM_REF"

\* a variant that tags the objections of 'Obj:Com:*' as the bot's
ObjectionClass_AllAi(condition) ==
    CASE condition = "Obj:AI:NoRef" -> "ai_objection_no_ref"
      [] condition = "Obj:AI:Ref" -> "ai_objection_community"
      [] condition = "Obj:Com:NoRef" -> "ai_objection_no_ref"
      [] condition = "Obj:Com:Ref" -> "ai_objection_community"

ObjectionClass(condition) ==
    CASE condition = "Obj:AI:NoRef" -> "ai_objection_no_ref"
      [] condition = "Obj:AI:Ref" -> "ai_objection_community"
      [] condition = "Obj:Com:NoRef" -> "human_objection_no_ref"
      [] condition = "Obj:Com:Ref" -> "human_objection_community"

\* the actors an objection of the condition can be written by: the bot for
\* 'Obj:AI:*', the human objection actors for 'Obj:Com:*'
ObjectionActors(condition, as) ==
    IF condition \in {"Obj:AI:NoRef", "Obj:AI:Ref"}
    THEN aiBotActor(as)
    ELSE humanObjectionActors(as)

\* a variant that dates the objection nine hours back
ObjectionTime_NineHours(t, createdAt) == (t - 3 * ObjectionAge) - createdAt

\* a variant that counts the three hours from the account's creation
ObjectionTime_FromCreation(t, createdAt) == 0 - ObjectionAge

\* (Date.now() - (3 * 60 * 60 * 1000)) - user.createdAt.getTime()
ObjectionTime(t, createdAt) == (t - ObjectionAge) - createdAt

\* the subcomment the cases 'Obj:*' build
ObjectionSubcomment(condition, actor, objectionId, t, createdAt) ==
    [id |-> objectionId, commentID |-> ObjectionCommentID,
     body |-> ObjectionBody(condition), class |-> ObjectionClass(condition),
     actor |-> serializeActorForSubcomment(actor),
     time |-> ObjectionTime(t, createdAt),
     likes |-> 0, unlikes |-> 0,
     liked |-> FALSE, unliked |-> FALSE, flagged |-> FALSE,
     new_comment |-> FALSE, reply_to |-> Null, parent_comment |-> Null]

\* a variant that puts the objection before the replies of the script
ObjectionCase_Prepended(comment, condition, as, objectionId, t, createdAt) ==
    IF Len(ObjectionActors(condition, as)) > 0
    THEN [comment EXCEPT !.subcomments =
             <<ObjectionSubcomment(condition,
                                   ObjectionActors(condition, as)[1],
                                   objectionId, t, createdAt)>> \o @]
    ELSE comment

\* a variant that falls back on the first stored actor
ObjectionCase_FallbackActor(comment, condition, as, objectionId, t, createdAt) ==
    [comment EXCEPT !.subcomments =
        Append(@, ObjectionSubcomment(condition,
                      IF Len(ObjectionActors(condition, as)) > 0
                      THEN ObjectionActors(condition, as)[1]
                      ELSE as[1],
                      objectionId, t, createdAt))]

\* the four cases 'Obj:*'
ObjectionCase(comment, condition, as, objectionId, t, createdAt) ==
    IF Len(ObjectionActors(condition, as)) > 0
    THEN [comment EXCEPT !.subcomments =
             Append(@, ObjectionSubcomment(condition,
                                           ObjectionActors(condition, as)[1],
                                           objectionId, t, createdAt))]
    ELSE comment

\* switch (user.condition)
SwitchCondition(comment, condition, as, objectionId, t, createdAt) ==
    CASE condition = "Control" -> ControlCase(comment)
      [] condition \in RemConditions -> RemovalCase(comment, condition)
      [] condition \in ObjConditions ->
             ObjectionCase(comment, condition, as, objectionId, t, createdAt)
      [] OTHER -> comment

applyManipulationToFirstVideo(firstVideo, u, as, objectionId, t) ==
    LET found == FindHarassmentIndex(firstVideo.comments)
        comments1 ==
            IF found # 0
            THEN [firstVideo.comments EXCEPT
                     ![found] = ResetFound(@, u.condition)]
            ELSE IF Len(as) > 0
            THEN Append(firstVideo.comments,
                        harassmentCommentObj(as[1], u.condition))
            ELSE firstVideo.comments
        harassmentCommentIndex ==
            IF found # 0 THEN found
            ELSE IF Len(as) > 0 THEN Len(comments1)
            ELSE 0
    IN  IF harassmentCommentIndex = 0
        THEN firstVideo
        ELSE [firstVideo EXCEPT !.comments =
                 [comments1 EXCEPT ![harassmentCommentIndex] =
                     SwitchCondition(@, u.condition, as, objectionId, t,
                                     u.createdAt)]]

\* a variant that manipulates each of the three videos
applyExperimentalManipulations_AllVideos(feedDocs, u, as, objectionId, t) ==
    IF Len(feedDocs) # 3
    THEN feedDocs
    ELSE [i \in 1..3 |->
             applyManipulationToFirstVideo(feedDocs[i], u, as, objectionId, t)]

\* a variant that manipulates the first video of any feed
applyExperimentalManipulations_Always(feedDocs, u, as, objectionId, t) ==
    IF Len(feedDocs) = 0
    THEN feedDocs
    ELSE [feedDocs EXCEPT ![1] =
             applyManipulationToFirstVideo(@, u, as, objectionId, t)]

\* applied to exactly three videos, to the first of them
applyExperimentalManipulations(feedDocs, u, as, objectionId, t) ==
    IF Len(feedDocs) # 3
    THEN feedDocs
    ELSE [feedDocs EXCEPT ![1] =
             applyManipulationToFirstVideo(@, u, as, objectionId, t)]

\* lines 78-94: every comment tagged offense1 with the harassment text, or
\* tagged with a removal class, is pinned again
IsRemovalClass(class) ==
    class \in {"ai_removal_no_ref", "ai_removal_community",
               "community_removal_no_ref", "community_removal_community"}

PinHarassment(video) ==
    [video EXCEPT !.comments =
        [i \in 1..Len(@) |->
            IF (@[i].class = "offense1" /\ IncludesLol(@[i]))
               \/ IsRemovalClass(@[i].class)
            THEN setHarassmentCommentTime(@[i])
            ELSE @[i]]]

-----------------------------------------------------------------------------
(* Replay of the user's feedAction onto one loaded video: the body of the  *)
(* while loop of getFeed, lines 100-224.                                    *)

NoActor == [_id |-> Null, username |-> Undefined, class |-> Undefined]

\* a variant that starts every new comment without likes
NewComment_NoLikes(commentObject) ==
    [id |-> Null, commentID |-> commentObject.new_comment_id,
     body |-> commentObject.body, class |-> Undefined, actor |-> NoActor,
     time |-> commentObject.relativeTime,
     likes |-> 0, unlikes |-> 0,
     liked |-> commentObject.liked, unliked |-> commentObject.unliked,
     flagged |-> FALSE,
     removed |-> Undefined, allowInteractions |-> Undefined,
     new_comment |-> commentObject.new_comment, subcomments |-> <<>>]

\* the object cat of a new comment that is no reply, as a top-level comment
NewComment(commentObject) ==
    [id |-> Null, commentID |-> commentObject.new_comment_id,
     body |-> commentObject.body, class |-> Undefined, actor |-> NoActor,
     time |-> commentObject.relativeTime,
     likes |-> IF commentObject.liked THEN 1 ELSE 0,
     unlikes |-> IF commentObject.unliked THEN 1 ELSE 0,
     liked |-> commentObject.liked, unliked |-> commentObject.unliked,
     flagged |-> FALSE,
     removed |-> Undefined, allowInteractions |-> Undefined,
     new_comment |-> commentObject.new_comment, subcomments |-> <<>>]

\* the object cat of a new comment that is a reply
NewReply(commentObject) ==
    [id |-> Null, commentID |-> commentObject.new_comment_id,
     body |-> commentObject.body, class |-> Undefined, actor |-> NoActor,
     time |-> commentObject.relativeTime,
     likes |-> IF commentObject.liked THEN 1 ELSE 0,
     unlikes |-> IF commentObject.unliked THEN 1 ELSE 0,
     liked |-> commentObject.liked, unliked |-> commentObject.unliked,
     flagged |-> FALSE,
     new_comment |-> commentObject.new_comment,
     reply_to |-> commentObject.reply_to,
     parent_comment |-> commentObject.parent_comment]

\* lines 145-159 and 165-179: the deltas of one log entry on the record c
ApplyDeltas(c, commentObject) ==
    [c EXCEPT !.liked = IF commentObject.liked THEN TRUE ELSE @,
              !.likes = IF commentObject.liked THEN @ + 1 ELSE @,
              !.unliked = IF commentObject.unliked THEN TRUE ELSE @,
              !.unlikes = IF commentObject.unliked THEN @ + 1 ELSE @,
              !.flagged = IF commentObject.flagged THEN TRUE ELSE @]

\* lines 162-181: the entry applied to the subcomment of each comment that
\* carries the id
ApplyToSubcomments(comments, commentObject) ==
    [i \in 1..Len(comments) |->
        LET subcommentIndex ==
                FindIndex(comments[i].subcomments,
                          LAMBDA o : o.id = commentObject.comment)
        IN  IF subcommentIndex # 0
            THEN [comments[i] EXCEPT !.subcomments[subcommentIndex] =
                     ApplyDeltas(@, commentObject)]
            ELSE comments[i]]

\* a variant that looks among the top-level comments only
ApplyExisting_TopLevelOnly(comments, commentObject) ==
    LET commentIndex ==
            FindIndex(comments, LAMBDA o : o.id = commentObject.comment)
    IN  IF commentIndex # 0
        THEN [comments EXCEPT ![commentIndex] = ApplyDeltas(@, commentObject)]
        ELSE comments

\* lines 139-183: an entry that refers to an existing comment
ApplyExisting(comments, commentObject) ==
    LET commentIndex ==
            FindIndex(comments, LAMBDA o : o.id = commentObject.comment)
    IN  IF commentIndex # 0
        THEN [comments EXCEPT ![commentIndex] = ApplyDeltas(@, commentObject)]
        ELSE ApplyToSubcomments(comments, commentObject)

\* lines 113-184: the entries of the log in turn.  The state of the loop is
\* the comments of the video and the replies buffered in replyDictionary,
\* kept here in the order they were buffered.
RECURSIVE ReplayComments(_, _, _)
ReplayComments(comments, replies, log) ==
    IF log = <<>>
    THEN [comments |-> comments, replies |-> replies]
    ELSE LET commentObject == Head(log)
         IN  IF commentObject.new_comment
             THEN IF commentObject.reply_to # Null
                  THEN ReplayComments(comments,
                                      Append(replies, NewReply(commentObject)),
                                      Tail(log))
                  ELSE ReplayComments(Append(comments, NewComment(commentObject)),
                                      replies, Tail(log))
             ELSE ReplayComments(ApplyExisting(comments, commentObject),
                                 replies, Tail(log))

\* the keys of replyDictionary
ReplyKeys(replies) == {replies[i].parent_comment : i \in 1..Len(replies)}

\* replyDictionary[key]
RepliesTo(replies, key) == SelectSeq(replies, LAMBDA r : r.parent_comment = key)

\* line 191: the comment the replies to key are attached to; 0 when no
\* top-level comment has that commentID
ParentIndex(comments, key) == FindIndex(comments, LAMBDA o : o.commentID = key)

\* a variant that leaves the buffered replies out
MergeReplies_Dropped(comments, replies) == comments

\* a variant that appends the replies and leaves the order
MergeReplies_Unsorted(comments, replies) ==
    [i \in 1..Len(comments) |->
        IF \E key \in ReplyKeys(replies) : ParentIndex(comments, key) = i
        THEN [comments[i] EXCEPT !.subcomments =
                 @ \o RepliesTo(replies, comments[i].commentID)]
        ELSE comments[i]]

\* lines 190-197: the buffered replies merged into their parents
MergeReplies(comments, replies) ==
    [i \in 1..Len(comments) |->
        IF \E key \in ReplyKeys(replies) : ParentIndex(comments, key) = i
        THEN [comments[i] EXCEPT !.subcomments =
                 SortTimeAsc(@ \o RepliesTo(replies, comments[i].commentID))]
        ELSE comments[i]]

\* a variant that sets the flags and leaves the counters
ApplyPostFlags_NoCount(video, entry) ==
    [video EXCEPT !.like = IF entry.liked THEN TRUE ELSE @,
                  !.unlike = IF entry.unliked THEN TRUE ELSE @,
                  !.flag = IF entry.flagged THEN TRUE ELSE @]

\* lines 199-212: the post-level flags of the log entry
ApplyPostFlags(video, entry) ==
    [video EXCEPT !.like = IF entry.liked THEN TRUE ELSE @,
                  !.likes = IF entry.liked THEN @ + 1 ELSE @,
                  !.unlike = IF entry.unliked THEN TRUE ELSE @,
                  !.unlikes = IF entry.unliked THEN @ + 1 ELSE @,
                  !.flag = IF entry.flagged THEN TRUE ELSE @]

\* line 105: the first entry of the log for the video; 0 when there is none
FeedIndex(feedAction, video) ==
    FindIndex(feedAction, LAMBDA o : o.post = video.id)

\* the sorted comments and the buffered replies of a video with a log entry
Replayed(video, entry) ==
    LET r == ReplayComments(video.comments, <<>>, entry.comments)
    IN  [comments |-> SortTimeDesc(r.comments), replies |-> r.replies]

\* line 192 reads the subcomments of comments[-1] when a key of
\* replyDictionary is the commentID of no comment: a TypeError
ReplayThrows(video, feedAction) ==
    /\ FeedIndex(feedAction, video) # 0
    /\ LET r == Replayed(video, feedAction[FeedIndex(feedAction, video)])
       IN  \E key \in ReplyKeys(r.replies) : ParentIndex(r.comments, key) = 0

\* a variant that leaves the comments of a video without a log entry in
\* the order of the script
ReplayVideoResult_Unsorted(video, feedAction) ==
    IF FeedIndex(feedAction, video) # 0
    THEN LET entry == feedAction[FeedIndex(feedAction, video)]
             r == Replayed(video, entry)
         IN  ApplyPostFlags(
                 [video EXCEPT !.comments = MergeReplies(r.comments, r.replies)],
                 entry)
    ELSE video

\* one turn of the while loop on script_feed[0], when it does not throw
ReplayVideoResult(video, feedAction) ==
    IF FeedIndex(feedAction, video) # 0
    THEN LET entry == feedAction[FeedIndex(feedAction, video)]
             r == Replayed(video, entry)
         IN  ApplyPostFlags(
                 [video EXCEPT !.comments = MergeReplies(r.comments, r.replies)],
                 entry)
    ELSE [video EXCEPT !.comments = SortTimeDesc(@)]

-----------------------------------------------------------------------------
(* Serialization, lines 229-294 *)

\* post.toObject({ virtuals: true }): a plain copy of the document.  Whether
\* the copy keeps allowInteractions is the schema's matter: lost says it
\* does not.
toObject(post, lost) ==
    [post EXCEPT !.comments =
        [i \in 1..Len(@) |->
            IF lost THEN [@[i] EXCEPT !.allowInteractions = Undefined]
            ELSE @[i]]]

\* lines 246-261: the comment of the document that the copy is matched to,
\* by commentID or else by id; 0 when there is none
OriginalIndex(post, comment) ==
    FindIndex(post.comments,
              LAMBDA c : \/ c.commentID = comment.commentID
                         \/ (c.id # Null /\ comment.id # Null /\ c.id = comment.id))

\* lines 262-264
RestoreAllowInteractions(post, comment) ==
    IF /\ OriginalIndex(post, comment) # 0
       /\ post.comments[OriginalIndex(post, comment)].allowInteractions # Undefined
    THEN [comment EXCEPT !.allowInteractions =
             post.comments[OriginalIndex(post, comment)].allowInteractions]
    ELSE comment

\* lines 231-280: one post of serializedFeed
SerializePost(post, lost) ==
    [toObject(post, lost) EXCEPT !.comments =
        [i \in 1..Len(@) |-> RestoreAllowInteractions(post, @[i])]]

\* lines 284-294: the last pass, on the comments still tagged offense1
FinalPin(post) ==
    [post EXCEPT !.comments =
        [i \in 1..Len(@) |->
            IF @[i].class = "offense1" /\ IncludesLol(@[i])
            THEN setHarassmentCommentTime(@[i])
            ELSE @[i]]]

\* lines 225-296: what getFeed returns for the replayed documents
serializedFeed(docs, lost) ==
    [i \in 1..Len(docs) |-> FinalPin(SerializePost(SortPostID(docs)[i], lost))]

\* lines 61-297: the feed a request returns when no turn of its loop throws,
\* as a function of what it reads: the stored script, the user, the actors,
\* the ObjectId it draws and the clock
getFeed(stored, u, as, objectionId, t, lost) ==
    LET loaded == SortPostID(stored)
        manipulated == applyExperimentalManipulations(loaded, u, as,
                                                      objectionId, t)
        pinned == [i \in 1..Len(manipulated) |-> PinHarassment(manipulated[i])]
        replayed == [i \in 1..Len(pinned) |->
                        ReplayVideoResult(pinned[i], u.feedAction)]
    IN  serializedFeed(replayed, lost)

\* a variant that saves the documents the request changed
StoredAfter_Saved(stored, docs) == SortPostID(docs)

\* getFeed saves none of the documents it loaded: the collection after the
\* request is the collection before it
StoredAfter(stored, docs) == stored

-----------------------------------------------------------------------------
(* The user's action log, written between requests by the logging          *)
(* endpoints.  An event names the post, and a post-level flag, an existing *)
(* comment with a flag, or a new comment.                                  *)

NoEntry(post) ==
    [post |-> post, liked |-> FALSE, unliked |-> FALSE, flagged |-> FALSE,
     comments |-> <<>>]

ExistingAction(comment) ==
    [new_comment |-> FALSE, comment |-> comment,
     liked |-> FALSE, unliked |-> FALSE, flagged |-> FALSE,
     new_comment_id |-> Null, body |-> "", relativeTime |-> 0,
     reply_to |-> Null, parent_comment |-> Null]

NewAction(new_comment_id, body, relativeTime, parent) ==
    [new_comment |-> TRUE, comment |-> Null,
     liked |-> FALSE, unliked |-> FALSE, flagged |-> FALSE,
     new_comment_id |-> new_comment_id, body |-> body,
     relativeTime |-> relativeTime,
     reply_to |-> parent, parent_comment |-> parent]

SetFlag(r, flag) ==
    CASE flag = "liked" -> [r EXCEPT !.liked = TRUE]
      [] flag = "unliked" -> [r EXCEPT !.unliked = TRUE]
      [] flag = "flagged" -> [r EXCEPT !.flagged = TRUE]

\* the log with an entry for the post
WithEntry(feedAction, post) ==
    IF \E i \in 1..Len(feedAction) : feedAction[i].post = post
    THEN feedAction
    ELSE Append(feedAction, NoEntry(post))

EntryIndex(feedAction, post) ==
    CHOOSE i \in 1..Len(feedAction) : feedAction[i].post = post

LogPostFlag(feedAction, post, flag) ==
    LET fa == WithEntry(feedAction, post)
    IN  [fa EXCEPT ![EntryIndex(fa, post)] = SetFlag(@, flag)]

LogCommentFlag(feedAction, post, comment, flag) ==
    LET fa == WithEntry(feedAction, post)
        i == EntryIndex(fa, post)
        j == FindIndex(fa[i].comments,
                       LAMBDA o : ~o.new_comment /\ o.comment = comment)
    IN  IF j # 0
        THEN [fa EXCEPT ![i].comments[j] = SetFlag(@, flag)]
        ELSE [fa EXCEPT ![i].comments =
                 Append(@, SetFlag(ExistingAction(comment), flag))]

LogNewComment(feedAction, post, action) ==
    LET fa == WithEntry(feedAction, post)
    IN  [fa EXCEPT ![EntryIndex(fa, post)].comments = Append(@, action)]

\* the number of actions the log records
RECURSIVE LogSize(_)
LogSize(feedAction) ==
    IF feedAction = <<>> THEN 0
    ELSE LET e == Head(feedAction)
             Flags(r) == (IF r.liked THEN 1 ELSE 0) + (IF r.unliked THEN 1 ELSE 0)
                         + (IF r.flagged THEN 1 ELSE 0)
             RECURSIVE Sum(_)
             Sum(cs) == IF cs = <<>> THEN 0
                        ELSE (IF Head(cs).new_comment THEN 1 ELSE Flags(Head(cs)))
                             + Sum(Tail(cs))
         IN  Flags(e) + Sum(e.comments) + LogSize(Tail(feedAction))

-----------------------------------------------------------------------------
(* The state machine *)

\* the script variants explored together with action logs
ReplayBases ==
    {b \in BaseParams : b.hKind = "short" /\ b.hFirst /\ b.hTime = -60000}
    \cup OtherBases

ReplayConditions == {"Control", "Rem:AI:Ref", "Obj:Com:NoRef"}

AllActors == <<Troll, Alice, Bot, Kim, Lee>>

\* the script a user who has already written a comment is replayed on
ReturningBases == {b \in ReplayBases : b.n = 3 /\ b.hSub}

\* the log of a user who has written one comment under the first video, at
\* the moment the account was created, and liked it
ReturningLog ==
    << [NoEntry(PostDocId(0)) EXCEPT !.comments =
           <<[NewAction(1, "user text", 0, Null) EXCEPT !.liked = TRUE]>>] >>

Init ==
    /\ \/ /\ base \in BaseParams
          /\ actors \in ActorSets
          /\ \E c \in conditionMessages :
                user = [condition |-> c, createdAt |-> 5 * TickMs,
                        feedAction |-> <<>>]
          /\ limits = [log |-> 0, calls |-> 1]
       \/ /\ base \in ReplayBases
          /\ actors = AllActors
          /\ \E c \in ReplayConditions :
                user = [condition |-> c, createdAt |-> 5 * TickMs,
                        feedAction |-> <<>>]
          /\ limits = [log |-> MaxLog, calls |-> MaxCalls]
       \/ /\ base \in NoHarassmentBases
          /\ actors \in ActorSets \cup {<<>>}
          /\ \E c \in conditionMessages :
                user = [condition |-> c, createdAt |-> 5 * TickMs,
                        feedAction |-> <<>>]
          /\ limits = [log |-> 0, calls |-> 1]
       \/ /\ base \in ReturningBases
          /\ actors = AllActors
          /\ \E c \in ReplayConditions :
                user = [condition |-> c, createdAt |-> 5 * TickMs,
                        feedAction |-> ReturningLog]
          /\ limits = [log |-> MaxLog + 1, calls |-> MaxCalls]
    /\ script = SeededScript(base)
    /\ now = user.createdAt
    /\ pc = "idle"
    /\ script_feed = <<>>
    /\ finalfeed = <<>>
    /\ feed = <<>>
    /\ outcome = "none"
    /\ calls = 0

\* the ids of the comments and subcomments the user saw under the post in
\* the feed last returned
SeenIds(post) ==
    UNION {{c.id} \cup {c.subcomments[k].id : k \in 1..Len(c.subcomments)} :
           c \in UNION {Range(feed[i].comments) :
                        i \in {j \in 1..Len(feed) : feed[j].id = post}}}

FirstPost == PostDocId(0)
SecondPost == PostDocId(1)

\* the id of no stored post, the id of no comment, the commentID of no comment
MissingPost == PostDocId(99)
MissingComment == CommentDocId(99)
MissingParent == 77

\* the user likes, dislikes or flags a post
LogPost ==
    /\ pc = "idle"
    /\ LogSize(user.feedAction) < limits.log
    /\ \E ev \in ({FirstPost} \X {"liked", "unliked", "flagged"})
                 \cup {<<SecondPost, "liked">>, <<MissingPost, "liked">>} :
          user' = [user EXCEPT !.feedAction = LogPostFlag(@, ev[1], ev[2])]
    /\ UNCHANGED <<base, script, actors, now, pc, script_feed, finalfeed,
                   feed, outcome, calls, limits>>

\* the user likes, dislikes or flags a comment of the first post that the
\* feed showed (any of the three on the harassment comment and on what was
\* injected under it), or likes a comment that is in no feed
LogComment ==
    /\ pc = "idle"
    /\ LogSize(user.feedAction) < limits.log
    /\ \E c \in (SeenIds(FirstPost) \ {Null}) \cup {MissingComment} :
       \E flag \in {"liked", "unliked", "flagged"} :
          /\ flag # "liked" =>
                c \notin {CommentDocId(OtherID), CommentDocId(14),
                          CommentDocId(15), MissingComment}
          /\ user' = [user EXCEPT
                         !.feedAction = LogCommentFlag(@, FirstPost, c, flag)]
    /\ UNCHANGED <<base, script, actors, now, pc, script_feed, finalfeed,
                   feed, outcome, calls, limits>>

\* the new comments the log holds
RECURSIVE NumNew(_)
NumNew(feedAction) ==
    IF feedAction = <<>> THEN 0
    ELSE Len(SelectSeq(Head(feedAction).comments, LAMBDA o : o.new_comment))
         + NumNew(Tail(feedAction))

\* the user writes a comment, or a reply to a comment.  The comment gets the
\* user's next comment number as its new_comment_id, which can be the
\* commentID of a comment of the script (HarassID stands for that case).
LogNew ==
    /\ pc = "idle"
    /\ LogSize(user.feedAction) < limits.log
    /\ \E ev \in {<<FirstPost, NumNew(user.feedAction) + 1, Null>>,
                  <<FirstPost, HarassID, Null>>,
                  <<FirstPost, NumNew(user.feedAction) + 1, HarassID>>,
                  <<FirstPost, NumNew(user.feedAction) + 1, OtherID>>,
                  <<FirstPost, NumNew(user.feedAction) + 1, MissingParent>>,
                  <<SecondPost, NumNew(user.feedAction) + 1, Null>>} :
          user' = [user EXCEPT !.feedAction =
                      LogNewComment(@, ev[1],
                          NewAction(ev[2],
                                    IF ev[3] = Null THEN "user text"
                                    ELSE "user reply",
                                    now - user.createdAt, ev[3]))]
    /\ UNCHANGED <<base, script, actors, now, pc, script_feed, finalfeed,
                   feed, outcome, calls, limits>>

\* a request arrives: Script.find() for the user's interest, sorted by postID
GetFeedLoad ==
    /\ pc = "idle"
    /\ calls < limits.calls
    /\ \E dt \in 0..MaxTicks :
          /\ now + dt * TickMs <= user.createdAt + MaxTicks * TickMs
          /\ now' = now + dt * TickMs
    /\ script_feed' = SortPostID(script)
    /\ finalfeed' = <<>>
    /\ calls' = calls + 1
    /\ pc' = "loaded"
    /\ UNCHANGED <<base, script, actors, user, feed, outcome, limits>>

\* line 73
ApplyManipulations ==
    /\ pc = "loaded"
    /\ script_feed' = applyExperimentalManipulations(script_feed, user, actors,
                                                     NewObjectId(calls), now)
    /\ pc' = "manipulated"
    /\ UNCHANGED <<base, script, actors, user, now, finalfeed, feed, outcome,
                   calls, limits>>

\* lines 78-94
PinHarassmentTimes ==
    /\ pc = "manipulated"
    /\ script_feed' = [i \in 1..Len(script_feed) |-> PinHarassment(script_feed[i])]
    /\ pc' = "replaying"
    /\ UNCHANGED <<base, script, actors, user, now, finalfeed, feed, outcome,
                   calls, limits>>

\* one turn of the while loop
ReplayVideo ==
    /\ pc = "replaying"
    /\ script_feed # <<>>
    /\ ~ReplayThrows(script_feed[1], user.feedAction)
    /\ finalfeed' = Append(finalfeed,
                           ReplayVideoResult(script_feed[1], user.feedAction))
    /\ script_feed' = Tail(script_feed)
    /\ UNCHANGED <<base, script, actors, user, now, pc, feed, outcome, calls,
                   limits>>

\* the turn of the while loop that throws: the request fails
ReplayVideoThrows ==
    /\ pc = "replaying"
    /\ script_feed # <<>>
    /\ ReplayThrows(script_feed[1], user.feedAction)
    /\ outcome' = "threw"
    /\ script_feed' = <<>>
    /\ finalfeed' = <<>>
    /\ pc' = "idle"
    /\ UNCHANGED <<base, script, actors, user, now, feed, calls, limits>>

\* lines 225-296
ReturnFeed ==
    /\ pc = "replaying"
    /\ script_feed = <<>>
    /\ \E lost \in BOOLEAN : feed' = serializedFeed(finalfeed, lost)
    /\ script' = StoredAfter(script, finalfeed)
    /\ outcome' = "returned"
    /\ finalfeed' = <<>>
    /\ pc' = "idle"
    /\ UNCHANGED <<base, actors, user, now, script_feed, calls, limits>>

Next ==
    \/ LogPost
    \/ LogComment
    \/ LogNew
    \/ GetFeedLoad
    \/ ApplyManipulations
    \/ PinHarassmentTimes
    \/ ReplayVideo
    \/ ReplayVideoThrows
    \/ ReturnFeed

Spec == Init /\ [][Next]_vars

\* a request, once it has loaded the script, runs to its end: getFeed is one
\* async function that nothing suspends for good
RequestStep ==
    \/ ApplyManipulations
    \/ PinHarassmentTimes
    \/ ReplayVideo
    \/ ReplayVideoThrows
    \/ ReturnFeed

\* the runs the termination of a request is checked on: scripts of zero to
\* four videos, one action in the log at most, one request
LiveInit ==
    /\ base \in ReplayBases
    /\ base.n = 3 => base.hSub
    /\ actors = AllActors
    /\ \E c \in ReplayConditions :
          user = [condition |-> c, createdAt |-> 5 * TickMs,
                  feedAction |-> <<>>]
    /\ limits = [log |-> 1, calls |-> 1]
    /\ script = SeededScript(base)
    /\ now = user.createdAt
    /\ pc = "idle"
    /\ script_feed = <<>>
    /\ finalfeed = <<>>
    /\ feed = <<>>
    /\ outcome = "none"
    /\ calls = 0

LiveSpec == LiveInit /\ [][Next]_vars /\ WF_vars(RequestStep)

-----------------------------------------------------------------------------
(* Properties *)

\* the first video as getFeed holds it right after applyExperimentalManipulations
Manipulated == pc = "manipulated" /\ Len(script_feed) = 3

\* the stored first video holds a comment tagged offense1
SeededWithOffense1 ==
    \E c \in Range(script[1].comments) : c.class = "offense1"

\* the comments of s that carry the harassment comment's commentID
HarassmentIn(s) == {i \in 1..Len(s) : s[i].commentID = HarassID}

\* the comment of s with the harassment comment's commentID; a comment with
\* no commentID when s has none
HarassmentOf(s) ==
    IF HarassmentIn(s) = {}
    THEN Comment(Null, "", "", NoActor, 0, 0, 0, <<>>)
    ELSE s[CHOOSE i \in HarassmentIn(s) : TRUE]

PinnedIn(s) == {i \in 1..Len(s) : s[i].time = -21600000}

ObjectionsIn(subs) == {k \in 1..Len(subs) : subs[k].commentID = 96}

\* C1: for every condition, after applyManipulationToFirstVideo on a first
\* video that holds the offense1 comment, exactly one top-level comment has
\* time -21600000, and it is the harassment comment, whatever its time in
\* the script was.
C1_ExactlyOnePinned ==
    (Manipulated /\ SeededWithOffense1) =>
        /\ Cardinality(PinnedIn(script_feed[1].comments)) = 1
        /\ PinnedIn(script_feed[1].comments) = HarassmentIn(script_feed[1].comments)

C1_Witness ==
    /\ Manipulated /\ SeededWithOffense1
    /\ user.condition = "Obj:AI:Ref"
    /\ HarassmentOf(script[1].comments).time = -12 * 60 * 60 * 1000
    /\ HarassmentOf(script_feed[1].comments).time = -21600000

\* C2: for the four Rem:* conditions, after applyManipulationToFirstVideo the
\* harassment comment's actor is named [deleted], it has no subcomments,
\* whatever the script gave it, and allowInteractions is false.
C2_RemovedComment ==
    (Manipulated /\ SeededWithOffense1 /\ user.condition \in RemConditions) =>
        LET h == HarassmentOf(script_feed[1].comments)
        IN  /\ h.actor.username = "[deleted]"
            /\ Len(h.subcomments) = 0
            /\ h.allowInteractions = "false"

C2_Witness ==
    /\ Manipulated /\ SeededWithOffense1
    /\ user.condition = "Rem:Com:NoRef"
    /\ Len(HarassmentOf(script[1].comments).subcomments) = 1
    /\ HarassmentOf(script_feed[1].comments).actor.username = "[deleted]"

\* the actor the Obj:* condition of the user needs is stored
ObjectionActorPresent ==
    /\ user.condition \in {"Obj:AI:NoRef", "Obj:AI:Ref"} =>
          \E a \in Range(actors) : a.username = "VidShare Bot"
    /\ user.condition \in {"Obj:Com:NoRef", "Obj:Com:Ref"} =>
          \E a \in Range(actors) :
              a.class = "objection" /\ a.username # "VidShare Bot"

C4_ControlComment ==
    (Manipulated /\ SeededWithOffense1 /\ user.condition = "Control") =>
        LET h == HarassmentOf(script_feed[1].comments)
        IN  /\ Text(h.body) = Text("HARASSMENT_COMMENT")
            /\ h.class = "offense1"
            /\ h.removed = "false"
            /\ h.subcomments = <<>>
            /\ h.allowInteractions = "true"

C4_Witness ==
    /\ Manipulated /\ SeededWithOffense1 /\ user.condition = "Control"
    /\ HarassmentOf(script[1].comments).body = "LOL_SHORT"
    /\ Len(HarassmentOf(script[1].comments).subcomments) = 1
    /\ HarassmentOf(script_feed[1].comments).body = "HARASSMENT_COMMENT"

\* the stored video a replayed or returned video was loaded from
StoredOf(v) == script[CHOOSE i \in 1..Len(script) : script[i].id = v.id]

\* the log entry getFeed replays onto the video
EntryOf(v) == user.feedAction[FeedIndex(user.feedAction, v)]

HasEntry(v) == FeedIndex(user.feedAction, v) # 0

WithCommentID(v, x) == {i \in 1..Len(v.comments) : v.comments[i].commentID = x}

\* the new comments of the entry that are no replies
NewTopLevel(e) ==
    {j \in 1..Len(e.comments) :
        e.comments[j].new_comment /\ e.comments[j].reply_to = Null}

\* C6: a new-comment entry with reply_to = parent_comment = X, X the
\* commentID of one existing top-level comment of the video, leaves that
\* comment, found by commentID X in the sorted comments, with a subcomment
\* that has the entry's body, and adds no top-level comment.
C6_ReplyAttached ==
    pc = "replaying" =>
        \A v \in Range(finalfeed) : HasEntry(v) =>
            /\ \A j \in 1..Len(EntryOf(v).comments) :
                  LET a == EntryOf(v).comments[j]
                  IN  (/\ a.new_comment /\ a.reply_to # Null
                       /\ a.reply_to = a.parent_comment
                       /\ Cardinality(WithCommentID(v, a.parent_comment)) = 1
                       /\ \A i \in WithCommentID(v, a.parent_comment) :
                             ~v.comments[i].new_comment) =>
                      \A i \in WithCommentID(v, a.parent_comment) :
                          \E k \in 1..Len(v.comments[i].subcomments) :
                              /\ v.comments[i].subcomments[k].body = a.body
                              /\ v.comments[i].subcomments[k].commentID
                                     = a.new_comment_id
                              /\ v.comments[i].subcomments[k].new_comment
            /\ Cardinality({i \in 1..Len(v.comments) : v.comments[i].new_comment})
                   = Cardinality(NewTopLevel(EntryOf(v)))

C6_Witness ==
    /\ pc = "replaying"
    /\ \E v \in Range(finalfeed) :
          /\ HasEntry(v)
          /\ \E j \in 1..Len(EntryOf(v).comments) :
                /\ EntryOf(v).comments[j].new_comment
                /\ EntryOf(v).comments[j].parent_comment = HarassID
          /\ \E i \in WithCommentID(v, HarassID) :
                \E k \in 1..Len(v.comments[i].subcomments) :
                    v.comments[i].subcomments[k].body = "user reply"

\* a feed was returned for three videos whose first holds the comment 13,
\* tagged offense1, with a body that starts "LOL, did you even preview"
ReturnedForLolComment ==
    /\ Len(feed) = 3
    /\ Len(script) = 3
    /\ \E c \in Range(script[1].comments) :
          /\ c.commentID = 13 /\ c.class = "offense1"
          /\ SubSeq(Text(c.body), 1, 5) = LolPrefix

C8_ObjComNoRefEndToEnd ==
    (/\ ReturnedForLolComment /\ user.condition = "Obj:Com:NoRef"
     /\ ObjectionActorPresent
     /\ user.feedAction = <<>>
     /\ HarassmentOf(script[1].comments).subcomments = <<>>) =>
        /\ Cardinality(HarassmentIn(feed[1].comments)) = 1
        /\ LET h == HarassmentOf(feed[1].comments)
           IN  /\ h.body = HarassmentOf(script[1].comments).body
               /\ h.actor = HarassmentOf(script[1].comments).actor
               /\ Len(h.subcomments) = 1
               /\ h.subcomments[1].commentID = 96
               /\ h.subcomments[1].class = "human_objection_no_ref"

C8_Witness ==
    /\ ReturnedForLolComment /\ user.condition = "Obj:Com:NoRef"
    /\ ObjectionActorPresent
    /\ user.feedAction = <<>>
    /\ HarassmentOf(script[1].comments).subcomments = <<>>
    /\ HarassmentOf(feed[1].comments).subcomments[1].actor.username = "kim"

\* C9: for every action log, every getFeed request returns a feed without
\* raising; an entry for a missing post, a reference to a missing comment
\* and a reply to a missing parent are skipped.
C9_NeverThrows == outcome # "threw"

\* C10: getFeed never changes the stored script, and in every request the
\* like and unlike counts of each replayed post are the seeded counts plus
\* what the log says, whatever the number of requests before it.
C10_ScriptUnchanged ==
    /\ script = SeededScript(base)
    /\ pc = "replaying" =>
          \A v \in Range(finalfeed) :
              LET s == CHOOSE x \in Range(SeededScript(base)) :
                           x.postID = v.postID
                  liked == HasEntry(v) /\ EntryOf(v).liked
                  unliked == HasEntry(v) /\ EntryOf(v).unliked
              IN  /\ v.likes = s.likes + (IF liked THEN 1 ELSE 0)
                  /\ v.unlikes = s.unlikes + (IF unliked THEN 1 ELSE 0)

C10_Witness ==
    /\ calls = 2 /\ pc = "replaying" /\ outcome = "returned"
    /\ Len(finalfeed) = 3
    /\ HasEntry(finalfeed[1]) /\ EntryOf(finalfeed[1]).liked
    /\ finalfeed[1].likes = SeededScript(base)[1].likes + 1
    /\ feed[1].likes = SeededScript(base)[1].likes + 1

\* the request in progress has replayed every video and is about to return
AboutToReturn == pc = "replaying" /\ script_feed = <<>>

\* C11: two getFeed runs on the same condition, creation time, action log,
\* script and actors return equal feeds, the objection's time and id
\* included, whatever the times of the two requests: the feed the request
\* in progress returns is the feed of a request at any other time.
C11_SameFeedAtAnyTime ==
    AboutToReturn =>
        \A lost \in BOOLEAN : \A dt \in 0..MaxTicks : \A k \in 1..MaxCalls :
            serializedFeed(finalfeed, lost)
                = getFeed(script, user, actors, NewObjectId(k),
                          user.createdAt + dt * TickMs, lost)

\* a comment that is tagged as the harassment comment or as its removal
IsHarassmentClass(class) == class = "offense1" \/ IsRemovalClass(class)

\* C12: in the returned feed, for every condition and log, each comment
\* tagged offense1 or with a removal class has time -21600000, and every
\* subcomment under it (the objection, the user's replies) has a later time.
C12_HarassmentEarliest ==
    \A i \in 1..Len(feed) : \A c \in Range(feed[i].comments) :
        IsHarassmentClass(c.class) =>
            /\ c.time = -21600000
            /\ \A k \in 1..Len(c.subcomments) : c.time < c.subcomments[k].time

C12_Witness ==
    /\ outcome = "returned"
    /\ now > user.createdAt
    /\ \E i \in 1..Len(feed) : \E c \in Range(feed[i].comments) :
          /\ c.class = "offense1" /\ c.time = -21600000
          /\ \E k \in ObjectionsIn(c.subcomments) :
                c.subcomments[k].time > -10800000
          /\ \E k \in 1..Len(c.subcomments) : c.subcomments[k].new_comment

\* the first of the stored videos, as a request loads them
StoredFirst == SortPostID(script)[1]

\* the comments that are the harassment comment in the script: tagged
\* offense1, or with the harassment text
BaseHarassment(comments) ==
    {i \in 1..Len(comments) :
        comments[i].class = "offense1" \/ IncludesLol(comments[i])}

\* C13: for each of the nine conditions, when the first video of the script
\* has exactly one harassment comment, after applyManipulationToFirstVideo
\* every comment has the commentID it had, no comment was added or lost,
\* and exactly one comment, the same one, is tagged offense1 or with a
\* removal class.
C13_OneHarassmentComment ==
    (Manipulated /\ Cardinality(BaseHarassment(StoredFirst.comments)) = 1) =>
        LET before == StoredFirst.comments
            after == script_feed[1].comments
        IN  /\ Len(after) = Len(before)
            /\ \A i \in 1..Len(before) : after[i].commentID = before[i].commentID
            /\ {i \in 1..Len(after) : IsHarassmentClass(after[i].class)}
                   = BaseHarassment(before)

C13_Witness ==
    /\ Manipulated
    /\ user.condition = "Rem:Com:Ref"
    /\ HarassmentOf(StoredFirst.comments).class = ""
    /\ HarassmentOf(script_feed[1].comments).class = "community_removal_community"

\* the subcomments with commentID 96 that the user did not write, under the
\* comments of the videos of s
InjectedIn(s) ==
    UNION {UNION {{<<i, j, k>> :
                      k \in {l \in 1..Len(s[i].comments[j].subcomments) :
                                /\ s[i].comments[j].subcomments[l].commentID = 96
                                /\ ~s[i].comments[j].subcomments[l].new_comment}} :
                  j \in 1..Len(s[i].comments)} :
           i \in 1..Len(s)}

\* C14: what the manipulator adds to the subcomments of the script is one
\* subcomment with commentID 96 at most, appended to the subcomments of the
\* harassment comment of the first video, and only for an Obj:* condition;
\* for Control and Rem:* no subcomment 96 is anywhere, after the
\* manipulation and in the returned feed.
C14_OnlyObjection96 ==
    /\ Manipulated =>
          \A i \in 1..3 : \A j \in 1..Len(script_feed[i].comments) :
              LET subs == script_feed[i].comments[j].subcomments
                  was == IF j <= Len(SortPostID(script)[i].comments)
                         THEN SortPostID(script)[i].comments[j].subcomments
                         ELSE <<>>
              IN  \/ subs = was
                  \/ subs = <<>>
                  \/ /\ i = 1
                     /\ user.condition \in ObjConditions
                     /\ IsHarassmentClass(script_feed[i].comments[j].class)
                     /\ Len(subs) = Len(was) + 1
                     /\ SubSeq(subs, 1, Len(was)) = was
                     /\ subs[Len(subs)].commentID = 96
    /\ Manipulated =>
          Cardinality(InjectedIn(script_feed))
              <= (IF user.condition \in ObjConditions THEN 1 ELSE 0)
    /\ Cardinality(InjectedIn(feed))
          <= (IF user.condition \in ObjConditions THEN 1 ELSE 0)

C14_Witness ==
    /\ Manipulated /\ user.condition = "Obj:AI:NoRef"
    /\ LET h == HarassmentOf(script_feed[1].comments)
       IN  /\ Len(h.subcomments) = 2
           /\ h.subcomments[1].commentID = 15
           /\ h.subcomments[2].commentID = 96

FirstHumanObjector(a) ==
    \E m \in 1..Len(actors) :
        /\ actors[m] = a
        /\ a.class = "objection" /\ a.username # "VidShare Bot"
        /\ \A l \in 1..(m - 1) :
              ~(actors[l].class = "objection"
                /\ actors[l].username # "VidShare Bot")

\* C16: the injected objection has class ai_objection_no_ref or
\* ai_objection_community and the actor named VidShare Bot for Obj:AI:*,
\* class human_objection_no_ref or human_objection_community and the first
\* actor of class objection other than the bot for Obj:Com:*; its likes and
\* unlikes are 0 and liked and unliked are false.
C16_ObjectionOfCondition ==
    (Manipulated /\ user.condition \in ObjConditions) =>
        \A x \in InjectedIn(script_feed) :
            LET o == script_feed[x[1]].comments[x[2]].subcomments[x[3]]
            IN  /\ o.class =
                      CASE user.condition = "Obj:AI:NoRef" -> "ai_objection_no_ref"
                        [] user.condition = "Obj:AI:Ref" -> "ai_objection_community"
                        [] user.condition = "Obj:Com:NoRef" -> "human_objection_no_ref"
                        [] user.condition = "Obj:Com:Ref" -> "human_objection_community"
                /\ user.condition \in {"Obj:AI:NoRef", "Obj:AI:Ref"} =>
                      o.actor.username = "VidShare Bot" /\ o.actor \in Range(actors)
                /\ user.condition \in {"Obj:Com:NoRef", "Obj:Com:Ref"} =>
                      FirstHumanObjector(o.actor)
                /\ o.likes = 0 /\ o.unlikes = 0
                /\ o.liked = FALSE /\ o.unliked = FALSE

C16_Witness ==
    /\ Manipulated /\ user.condition = "Obj:Com:Ref"
    /\ \E m \in 1..Len(actors) : actors[m].username = "VidShare Bot"
    /\ \E x \in InjectedIn(script_feed) :
          /\ script_feed[x[1]].comments[x[2]].subcomments[x[3]].actor.username = "kim"
          /\ script_feed[x[1]].comments[x[2]].subcomments[x[3]].class
                 = "human_objection_community"

\* C17: when the actor an Obj:* condition needs is not stored, the
\* manipulation injects no objection; the harassment comment has time
\* -21600000, likes and unlikes 0, class offense1, allowInteractions true
\* and the subcomments the script gave it.
C17_MissingActor ==
    (/\ Manipulated /\ user.condition \in ObjConditions
     /\ ~ObjectionActorPresent
     /\ Cardinality(BaseHarassment(StoredFirst.comments)) = 1) =>
        LET h == HarassmentOf(script_feed[1].comments)
        IN  /\ InjectedIn(script_feed) = {}
            /\ h.time = -21600000
            /\ h.likes = 0 /\ h.unlikes = 0
            /\ h.class = "offense1"
            /\ h.allowInteractions = "true"
            /\ h.subcomments = HarassmentOf(StoredFirst.comments).subcomments

C17_Witness ==
    /\ Manipulated /\ user.condition = "Obj:AI:Ref"
    /\ ~ObjectionActorPresent
    /\ Len(HarassmentOf(StoredFirst.comments).subcomments) = 1
    /\ HarassmentOf(script_feed[1].comments).subcomments
          = HarassmentOf(StoredFirst.comments).subcomments
    /\ HarassmentOf(script_feed[1].comments).time = -21600000

\* the times of the top-level comments of v never increase along v.comments
TimeDescending(v) ==
    \A j \in 1..(Len(v.comments) - 1) :
        v.comments[j].time >= v.comments[j + 1].time

\* C18: when the videos loaded are not exactly three, the manipulation
\* changes nothing (no body, class or actor of a comment of the script is
\* changed, no objection and no comment 999 is added), and the request that
\* reaches its return has replayed the log on every loaded video, sorted the
\* comments of each and sorted the videos by postID.
C18_NotThreeVideos ==
    Len(script) # 3 =>
        /\ pc = "manipulated" => script_feed = SortPostID(script)
        /\ AboutToReturn =>
              /\ Len(finalfeed) = Len(script)
              /\ InjectedIn(finalfeed) = {}
              /\ \A i \in 1..(Len(finalfeed) - 1) :
                    finalfeed[i].postID < finalfeed[i + 1].postID
              /\ \A i \in 1..Len(finalfeed) :
                    LET v == finalfeed[i]
                    IN  /\ TimeDescending(v)
                        /\ \A c \in Range(v.comments) :
                              /\ c.commentID # 999
                              /\ ~c.new_comment =>
                                    /\ c.removed = Undefined
                                    /\ \E s \in Range(StoredOf(v).comments) :
                                          /\ s.commentID = c.commentID
                                          /\ s.body = c.body
                                          /\ s.class = c.class
                                          /\ s.actor = c.actor
                        /\ HasEntry(v) =>
                              /\ v.likes = StoredOf(v).likes
                                     + (IF EntryOf(v).liked THEN 1 ELSE 0)
                              /\ Cardinality({j \in 1..Len(v.comments) :
                                                 v.comments[j].new_comment})
                                     = Cardinality(NewTopLevel(EntryOf(v)))
        /\ (pc = "idle" /\ outcome = "returned") => Len(feed) = Len(script)

C18_Witness ==
    /\ Len(script) = 4 /\ AboutToReturn
    /\ user.condition = "Rem:AI:Ref"
    /\ HasEntry(finalfeed[1])
    /\ \E c \in Range(finalfeed[1].comments) : c.new_comment
    /\ \E c \in Range(finalfeed[1].comments) :
          c.class = "offense1" /\ c.body = "LOL_SHORT"

\* C19: in every video of the returned feed, with or without a log entry,
\* the top-level comments are in non-increasing order of time, so the
\* harassment comment at -21600000 comes after every later comment.
C19_CommentsByTimeDescending ==
    \A i \in 1..Len(feed) : TimeDescending(feed[i])

C19_Witness ==
    /\ outcome = "returned" /\ Len(feed) = 3
    /\ HasEntry(feed[1]) /\ ~HasEntry(feed[2])
    /\ Len(feed[1].comments) = 3
    /\ feed[1].comments[1].new_comment
    /\ feed[1].comments[3].time = -21600000
    /\ feed[2].comments[1].commentID = 21
    /\ StoredOf(feed[2]).comments[1].commentID = 20

\* the returned feed holds every stored video once, by ascending postID
EveryVideoOnce ==
    /\ Len(feed) = Len(script)
    /\ {feed[i].id : i \in 1..Len(feed)} = {script[i].id : i \in 1..Len(script)}
    /\ \A i \in 1..(Len(feed) - 1) : feed[i].postID < feed[i + 1].postID

\* C20: every request that has loaded its videos comes to an end, and the
\* feed a request returns holds every loaded video exactly once, in
\* ascending order of postID, whichever videos have log entries.
C20_TerminatesWithEveryVideo ==
    /\ [](outcome = "returned" => EveryVideoOnce)
    /\ (pc # "idle") ~> (pc = "idle")

C20_Witness ==
    /\ pc = "idle" /\ outcome = "returned"
    /\ Len(feed) = 4
    /\ script[1].postID = 3 /\ feed[1].postID = 0
    /\ HasEntry(feed[2]) /\ ~HasEntry(feed[1])

\* C21: for all nine conditions the manipulation leaves videos 2 and 3 as
\* loaded, leaves every field of video 1 but its comments, and leaves every
\* top-level comment of video 1 other than the harassment comment exactly
\* as loaded.
C21_OnlyHarassmentComment ==
    Manipulated =>
        LET loaded == SortPostID(script)
        IN  /\ script_feed[2] = loaded[2]
            /\ script_feed[3] = loaded[3]
            /\ [script_feed[1] EXCEPT !.comments = loaded[1].comments] = loaded[1]
            /\ \A j \in 1..Len(loaded[1].comments) :
                  j \notin BaseHarassment(loaded[1].comments) =>
                      script_feed[1].comments[j] = loaded[1].comments[j]

C21_Witness ==
    /\ Manipulated /\ user.condition = "Rem:AI:NoRef"
    /\ Len(script_feed[1].comments) = 2
    /\ script_feed[1].comments[1] = OtherComment
    /\ script_feed[1].comments[2].body = "REMOVAL_AI_NO_REF"
    /\ Len(script_feed[2].comments) = 2

\* C22: the harassment comment is looked up by class offense1, else by its
\* text; when the first video has comments but none matches and the
\* condition is not Control, the manipulator changes nothing; a comment 999
\* is created only when the first video has no comment at all.
C22_NoChangeWhenAbsent ==
    Manipulated =>
        LET before == StoredFirst.comments
            after == script_feed[1].comments
        IN  /\ (/\ Len(before) > 0
                /\ BaseHarassment(before) = {}
                /\ user.condition # "Control") => after = before
            /\ (\E j \in 1..Len(after) : after[j].commentID = 999) =>
                  Len(before) = 0

\* a turn of the while loop that ends with finalfeed.push: Pre is the video
\* as the turn found it, Post the video it pushed
Turn == pc = "replaying" /\ Len(finalfeed') = Len(finalfeed) + 1
Pre == script_feed[1]
Post == finalfeed'[Len(finalfeed')]

\* the actions the log holds for the video of the turn
TurnActions == IF HasEntry(Pre) THEN EntryOf(Pre).comments ELSE <<>>

\* the comment of Pre that c is after the turn; a comment without
\* subcomments when the user wrote c
PriorOf(c) ==
    IF c.new_comment \/ \A o \in Range(Pre.comments) : o.commentID # c.commentID
    THEN Comment(Null, "", "", NoActor, 0, 0, 0, <<>>)
    ELSE CHOOSE o \in Range(Pre.comments) : o.commentID = c.commentID

Hit(id, flag) ==
    \E a \in Range(TurnActions) :
        /\ ~a.new_comment /\ a.comment = id
        /\ CASE flag = "liked" -> a.liked
             [] flag = "unliked" -> a.unliked
             [] flag = "flagged" -> a.flagged

\* the record r is the record p with the deltas the log holds for the id
DeltasOf(r, p, id) ==
    /\ r.liked = (p.liked \/ Hit(id, "liked"))
    /\ r.likes = p.likes + (IF Hit(id, "liked") THEN 1 ELSE 0)
    /\ r.unliked = (p.unliked \/ Hit(id, "unliked"))
    /\ r.unlikes = p.unlikes + (IF Hit(id, "unliked") THEN 1 ELSE 0)
    /\ r.flagged = (p.flagged \/ Hit(id, "flagged"))

\* C24: after a turn of replay, each comment of the script has the flags
\* and counters it had plus the deltas of the log action that names its id
\* (liked: liked and likes + 1, unliked: unliked and unlikes + 1, flagged:
\* flagged); each subcomment likewise, when no top-level comment has the id;
\* a record no action names keeps its flags and counters.
C24_DeltasOnTheNamedRecord ==
    [][Turn =>
        \A i \in 1..Len(Post.comments) :
            LET c == Post.comments[i]
                p == PriorOf(c)
            IN  ~c.new_comment =>
                    /\ DeltasOf(c, p, c.id)
                    /\ \A k \in 1..Len(c.subcomments) :
                          LET s == c.subcomments[k]
                          IN  ~s.new_comment =>
                                  \E q \in Range(p.subcomments) :
                                      /\ q.id = s.id
                                      /\ \/ /\ \E o \in Range(Pre.comments) : o.id = s.id
                                            /\ s = q
                                         \/ /\ \A o \in Range(Pre.comments) : o.id # s.id
                                            /\ DeltasOf(s, q, s.id)
    ]_vars

C24_Witness ==
    /\ pc = "replaying" /\ finalfeed # <<>>
    /\ HasEntry(finalfeed[1])
    /\ \E a \in Range(EntryOf(finalfeed[1]).comments) :
          ~a.new_comment /\ a.comment = CommentDocId(14) /\ a.liked
    /\ \E c \in Range(finalfeed[1].comments) :
          /\ c.commentID = OtherID /\ c.likes = 2 /\ ~c.liked
          /\ c.subcomments[1].liked /\ c.subcomments[1].likes = 1

\* C25: under the Rem:* conditions, whatever the log holds, the removed
\* comment of the returned feed has liked, unliked and flagged false, likes
\* and unlikes 0 and no subcomments.
C25_RemovedCommentUntouched ==
    user.condition \in RemConditions =>
        \A i \in 1..Len(feed) : \A c \in Range(feed[i].comments) :
            IsRemovalClass(c.class) =>
                /\ ~c.liked /\ ~c.unliked /\ ~c.flagged
                /\ c.likes = 0 /\ c.unlikes = 0
                /\ c.subcomments = <<>>

\* the new top-level comments the log holds for the video of the turn
TurnNewTopLevel ==
    SelectSeq(TurnActions, LAMBDA a : a.new_comment /\ a.reply_to = Null)

\* C27: after a turn of replay the video has one more top-level comment for
\* each new-comment action without reply_to: its commentID is the action's
\* new_comment_id, its body the action's body, its time the relativeTime,
\* liked and unliked are the action's, likes and unlikes are 1 when the
\* flag is set and 0 otherwise; the number of top-level comments is the
\* number before the turn plus the number of such actions.
C27_NewTopLevelComments ==
    [][Turn =>
        /\ Len(Post.comments) = Len(Pre.comments) + Len(TurnNewTopLevel)
        /\ Cardinality({i \in 1..Len(Post.comments) : Post.comments[i].new_comment})
               = Len(TurnNewTopLevel)
        /\ \A a \in Range(TurnNewTopLevel) :
              \E i \in 1..Len(Post.comments) :
                  LET c == Post.comments[i]
                  IN  /\ c.new_comment
                      /\ c.commentID = a.new_comment_id
                      /\ c.body = a.body
                      /\ c.time = a.relativeTime
                      /\ c.liked = a.liked /\ c.unliked = a.unliked
                      /\ c.likes = (IF a.liked THEN 1 ELSE 0)
                      /\ c.unlikes = (IF a.unliked THEN 1 ELSE 0)
    ]_vars

C27_Witness ==
    /\ pc = "replaying" /\ finalfeed # <<>>
    /\ HasEntry(finalfeed[1])
    /\ Cardinality(NewTopLevel(EntryOf(finalfeed[1]))) = 2
    /\ Len(finalfeed[1].comments) = 4
    /\ \E c \in Range(finalfeed[1].comments) :
          c.new_comment /\ c.liked /\ c.likes = 1 /\ c.time = 0
    /\ \E c \in Range(finalfeed[1].comments) :
          c.new_comment /\ ~c.liked /\ c.likes = 0 /\ c.time > 0

\* the orders a list of n elements can be put in
Perms(n) ==
    {f \in [1..n -> 1..n] : \A i, j \in 1..n : i # j => f[i] # f[j]}

\* the logs that differ from feedAction by the order of the comments list
\* of one entry
PermutedLogs(feedAction) ==
    {feedAction} \cup
    UNION {{[feedAction EXCEPT ![e].comments =
                [i \in 1..Len(@) |-> @[f[i]]]] :
            f \in Perms(Len(feedAction[e].comments))} :
           e \in 1..Len(feedAction)}

\* the feed of the request in progress is the feed the request would
\* return for the log fa
SameFeedFor(fa) ==
    \A lost \in BOOLEAN :
        serializedFeed(finalfeed, lost)
            = getFeed(script, [user EXCEPT !.feedAction = fa], actors,
                      NewObjectId(calls), now, lost)

\* C26: the returned feed is the same for every permutation of
\* the comments list of a log entry, also when two new comments or replies
\* carry equal times.
C26_AnyPermutation ==
    AboutToReturn =>
        \A fa \in PermutedLogs(user.feedAction) : SameFeedFor(fa)

\* no two new comments or replies of one log entry carry the same time
DistinctNewTimes(feedAction) ==
    \A e \in 1..Len(feedAction) :
        \A i, j \in 1..Len(feedAction[e].comments) :
            (/\ i # j
             /\ feedAction[e].comments[i].new_comment
             /\ feedAction[e].comments[j].new_comment) =>
                feedAction[e].comments[i].relativeTime
                    # feedAction[e].comments[j].relativeTime

\* the order of the log does not matter when the times differ: the feed is
\* the same for every permutation of the comments list of a log entry of
\* which no two new comments or replies carry equal times
PermutationWithDistinctTimes ==
    (AboutToReturn /\ DistinctNewTimes(user.feedAction)) =>
        \A fa \in PermutedLogs(user.feedAction) : SameFeedFor(fa)

\* the step that returns the feed
Returns == pc = "replaying" /\ script_feed = <<>> /\ outcome' = "returned"

\* C28: every top-level comment of the returned feed has the
\* allowInteractions it had before serialization, so the harassment
\* comment's is true for Control and Obj:* and false for Rem:*, also when a
\* comment the user wrote has the commentID of another comment.
C28_AllowInteractionsPreserved ==
    [][Returns =>
        \A i \in 1..Len(feed') : \A j \in 1..Len(feed'[i].comments) :
            LET c == feed'[i].comments[j]
            IN  /\ c.allowInteractions
                      = SortPostID(finalfeed)[i].comments[j].allowInteractions
                /\ (Len(feed') = 3 /\ i = 1 /\ IsHarassmentClass(c.class)) =>
                      c.allowInteractions
                          = Bool(user.condition \notin RemConditions)
    ]_vars

\* the log holds an action with the flag on the comment with that id
Logged(id, flag) ==
    \E e \in Range(user.feedAction) : \E a \in Range(e.comments) :
        /\ ~a.new_comment /\ a.comment = id
        /\ CASE flag = "liked" -> a.liked
             [] flag = "unliked" -> a.unliked
             [] flag = "flagged" -> a.flagged

EarlierObjectionIds == {NewObjectId(k) : k \in 1..(calls - 1)}

\* C30: under an Obj:* condition, an action the user logged against the
\* objection by the id it carried in an earlier feed is applied to the
\* objection of every later request: a like gives liked true and likes 1, a
\* flag gives flagged true.
C30_ObjectionActionKept ==
    (AboutToReturn /\ user.condition \in ObjConditions) =>
        \A id \in EarlierObjectionIds :
        \A x \in InjectedIn(finalfeed) :
            LET o == finalfeed[x[1]].comments[x[2]].subcomments[x[3]]
            IN  /\ Logged(id, "liked") => (o.liked /\ o.likes = 1)
                /\ Logged(id, "flagged") => o.flagged

=============================================================================
